---- MODULE Spec2Model ----
(***************************************************************************)
(* The per-agent supervisor of commander/src/agent.rs: a watchdog that     *)
(* spawns a worker, races the worker's exit against the command channel,   *)
(* restarts it with backoff and publishes every transition in the fleet    *)
(* store of commander/src/state.rs.                                        *)
(*                                                                         *)
(* One action is one stretch of code between two suspension points of the  *)
(* supervisor task (an .await), or one step of its environment: an         *)
(* operator sending a command or dropping the senders, the worker process  *)
(* exiting on its own, time passing.                                       *)
(***************************************************************************)
EXTENDS Integers, Sequences, FiniteSets, TLC

VARIABLES
    count,          \* StartFleet's --count: how many agents are spawned
    horizon,        \* the restart cycles without a counter reset that are followed
    fleet,          \* FleetState: HashMap<String, AgentState>, by agent id
    lock,           \* the holder of FleetState's Mutex: an agent's task, or "free"
    queue,          \* per agent: the mpsc channel's buffered AgentCommands
    closed,         \* per agent: every Sender of the channel has been dropped
    pc,             \* per agent: where the supervisor task is suspended
    ret,            \* per agent: the caller wait_for_start returns to
    child,          \* per agent: the worker process held by spawn_and_monitor
    restart_count,  \* per agent: run()'s local restart_count
    elapsed,        \* per agent: last_restart.elapsed(), in seconds, saturating
    backoff,        \* per agent: run()'s local backoff of the current cycle
    sleep,          \* per agent: seconds left of tokio::time::sleep(backoff)
    delays,         \* per agent: the backoffs logged since the counter last reset
    uptime,         \* per agent: AgentState.uptime, an Instant told from the present
    runStart,       \* per agent: history, the Instant the worker now running was spawned
    config,         \* per agent: the openclaw.json file ensure_config provisions, if any
    armed,          \* per agent: history, a Start/Restart was dequeued since the last Stopped
    restartReq,     \* per agent: history, a Restart sent to a monitored worker awaits its spawn
    origin          \* per agent: history, what made spawn_and_monitor return to the watchdog,
                    \* or "ignored" once the monitor loop has passed over a command

vars == <<count, horizon, fleet, lock, uptime, runStart, queue, closed, pc, ret, child, restart_count, elapsed,
          backoff, sleep, delays, config, armed, restartReq, origin>>

----------------------------------------------------------------------------
(* Bounds of the model *)

\* the channel's capacity (mpsc::channel(32)), scaled down
MaxQueue == 2

\* restart cycles without a counter reset that are followed: far enough for
\* the backoff to reach its cap
MaxRestarts == 16

\* the same, where behaviours are checked under fairness
LiveRestarts == 3

(* Program constants *)

\* Duration::from_secs(60): the window after which restart_count resets
ResetAfterSecs == 60

\* u64::min(restart_count * 2, 30)
BackoffCapSecs == 30

\* backoff = restart_count * 2
BackoffFactor == 2

\* StartFleet's default count
DefaultCount == 1

\* COMMANDER_BASE_PORT's default
BasePort == 20000

\* the port stride between agents
PortStride == 100

----------------------------------------------------------------------------
(* Data *)

AgentIds == {"fleet-0", "fleet-1"}

Index(a) == IF a = "fleet-0" THEN 0 ELSE 1

FleetId == "fleet"

AgentCommand == {"Stop", "Restart", "Start"}

AgentStatus == {"Starting", "Running", "Stopping", "Stopped", "Restarting", "Failed"}

\* Option<T>
None == <<>>
Some(x) == <<x>>

\* the process ids the operating system hands out
Pids == {4242}

\* what the elapsed time is compared with: one past the reset window is "more"
ElapsedCap == ResetAfterSecs + 1

Min(x, y) == IF x <= y THEN x ELSE y
Max(x, y) == IF x >= y THEN x ELSE y

\* the record inserted with the fleet's id in place of the agent's
AgentStateIdOfFleet(a) ==
    [id |-> FleetId, fleet_id |-> FleetId, port |-> BasePort + Index(a) * PortStride,
     ipv6 |-> None, pid |-> None, status |-> "Starting", tx |-> Some(a)]

\* the record spawn_agent inserts
AgentState(a) ==
    [id |-> a, fleet_id |-> FleetId, port |-> BasePort + Index(a) * PortStride,
     ipv6 |-> None, pid |-> None, status |-> "Starting", tx |-> Some(a)]

Registered == DOMAIN fleet

\* HashMap::insert
Insert(m, k, v) == [x \in (DOMAIN m) \cup {k} |-> IF x = k THEN v ELSE m[x]]

\* update_status forgetting `agent.pid = pid`
UpdateStatusKeepsPid(m, a, status, pid) ==
    IF a \in DOMAIN m
    THEN [m EXCEPT ![a].status = status]
    ELSE m

\* update_status writing through guard.values_mut() instead of get_mut(&self.id)
UpdateStatusOfAll(m, a, status, pid) ==
    [x \in DOMAIN m |-> [m[x] EXCEPT !.status = status, !.pid = pid]]

\* update_status: the entry's status and pid, when the entry exists
UpdateStatus(m, a, status, pid) ==
    IF a \in DOMAIN m
    THEN [m EXCEPT ![a].status = status, ![a].pid = pid]
    ELSE m

\* a MutexGuard kept alive after the write
GuardKept(a) == a

\* the Mutex after the scope of the MutexGuard ends
GuardDropped(a) == "free"

\* state.lock().unwrap(), the write, and the end of the guard's scope
LockedWrite(a) ==
    /\ lock = "free"
    /\ lock' = GuardDropped(a)

\* the supervisor owns rx until run() returns
ReceiverAlive(a) == pc[a] \notin {"unregistered", "done"}

----------------------------------------------------------------------------
\* the agents StartFleet spawns by default
Fleet == {a \in AgentIds : Index(a) < DefaultCount}

InitOf(n, h) ==
    /\ count = n
    /\ horizon = h
    /\ fleet = << >>
    /\ lock = "free"
    /\ uptime = [a \in AgentIds |-> "unset"]
    /\ runStart = [a \in AgentIds |-> "unset"]
    /\ queue = [a \in AgentIds |-> << >>]
    /\ closed = [a \in AgentIds |-> FALSE]
    /\ pc = [a \in AgentIds |-> "unregistered"]
    /\ ret = [a \in AgentIds |-> "none"]
    /\ child = [a \in AgentIds |-> "none"]
    /\ restart_count = [a \in AgentIds |-> 0]
    /\ elapsed = [a \in AgentIds |-> 0]
    /\ backoff = [a \in AgentIds |-> 0]
    /\ sleep = [a \in AgentIds |-> 0]
    /\ delays = [a \in AgentIds |-> << >>]
    /\ config = [a \in AgentIds |-> None]
    /\ armed = [a \in AgentIds |-> TRUE]
    /\ restartReq = [a \in AgentIds |-> FALSE]
    /\ origin = [a \in AgentIds |-> "none"]

InitWith(h) == InitOf(DefaultCount, h)

Init == InitWith(MaxRestarts)

InitLive == InitWith(LiveRestarts)

----------------------------------------------------------------------------
(* Pure steps of the watchdog *)

Set(f, a, v) == [f EXCEPT ![a] = v]

\* the watchdog without the reset of the counter
NextRestartCountNoReset(rc, el) == rc + 1

\* if last_restart.elapsed() > 60 s { restart_count = 0 }; restart_count += 1
NextRestartCount(rc, el) == (IF el > ResetAfterSecs THEN 0 ELSE rc) + 1

\* u64::min(restart_count * 2, 30)
Backoff(rc) == Min(rc * BackoffFactor, BackoffCapSecs)

\* the status published when child.wait() resolves
ExitStatus(success) == IF success THEN "Stopped" ELSE "Failed"

\* the child.wait() branch restarting after every exit
ExitAlwaysContinues(success) == TRUE

\* the child.wait() branch ending the supervisor after every exit
ExitNeverContinues(success) == FALSE

\* Ok(should_continue) of the child.wait() branch
ExitContinues(success) == ~success

\* wait_for_start returning on any command
IsAnyCommand(cmd) == TRUE

\* matches!(cmd, AgentCommand::Start | AgentCommand::Restart)
IsStart(cmd) == cmd \in {"Start", "Restart"}

\* a match on Stop whose arm is never taken
IsNoCommand(cmd) == FALSE

\* matches!(cmd, AgentCommand::Stop)
IsStop(cmd) == cmd = "Stop"

\* where control goes when wait_for_start returns true
AfterStart(r) ==
    CASE r = "pre" -> "spawn"
      [] r = "mon" -> "watchdog"
      [] r = "backoff" -> "loop_top"

\* the backoff select! taking None for a command it ignores
OnClosedIgnoredInBackoff(at) == IF at = "backoff" THEN "loop_top" ELSE "done"

\* where control goes when rx.recv() returns None at `at`: wait_for_start
\* returns false and run() breaks, the monitor loop returns Ok(false), the
\* backoff select! breaks
OnClosed(at) == "done"

\* the error of spawn_and_monitor propagated out of run() with `?`
OnSpawnErrorEndsTask(at) == "done"

\* where control goes when spawn_and_monitor returns Err at `at`: run() logs
\* the error and falls through to the watchdog
OnSpawnError(at) == "watchdog"

\* a receive point draining the buffer instead of taking one command
DequeuedAll(q) == << >>

\* the channel's buffer after rx.recv() or rx.try_recv() has returned its head
Dequeued(q) == Tail(q)

\* format!("tk_{}", Uuid::new_v4().simple()): a token no file has held before
FreshToken(cfg) == IF cfg = None THEN 1 ELSE cfg[1].token + 1

\* the OpenClawConfig that is serialized into openclaw.json
NewConfig(cfg) == Some([token |-> FreshToken(cfg), content |-> "generated"])

\* ensure_config without the test of config_path.exists()
EnsureConfigOverwrites(cfg) == NewConfig(cfg)

\* the file ensure_config leaves: written only when it does not exist
EnsureConfig(cfg) == IF cfg = None THEN NewConfig(cfg) ELSE cfg

----------------------------------------------------------------------------
(* History variables, written next to the code's steps and never read by them *)

\* after dequeuing cmd ("none": nothing dequeued), and publishing Stopped or not
Armed(a, cmd, stopped) ==
    IF stopped THEN FALSE
    ELSE IF cmd \in {"Start", "Restart"} THEN TRUE
    ELSE armed[a]

\* a spawn attempt begins when control reaches spawn_and_monitor
RestartReq(a, next) == IF next = "spawn" THEN FALSE ELSE restartReq[a]

----------------------------------------------------------------------------
(* spawn_agent: registration, then supervisor.run() *)

Register(a) ==
    /\ pc[a] = "unregistered"
    /\ Index(a) < count
    /\ fleet' = Insert(fleet, a, AgentState(a))
    /\ LockedWrite(a)
    /\ pc' = Set(pc, a, "loop_top")
    /\ restart_count' = Set(restart_count, a, 0)
    /\ elapsed' = Set(elapsed, a, 0)
    /\ uptime' = Set(uptime, a, "now")
    /\ UNCHANGED <<count, horizon, runStart, queue, closed, ret, child, backoff, sleep, delays,
                   config, armed, restartReq, origin>>

(* run(): the non-blocking check before a spawn attempt *)
PreSpawnCheck(a) ==
    /\ pc[a] = "loop_top"
    /\ IF queue[a] = << >>
       THEN \* try_recv() is Err: Empty or Disconnected
            /\ pc' = Set(pc, a, "spawn")
            /\ UNCHANGED <<fleet, lock, queue, ret, armed, origin>>
       ELSE /\ queue' = Set(queue, a, Dequeued(queue[a]))
            /\ IF IsStop(Head(queue[a]))
               THEN /\ fleet' = UpdateStatus(fleet, a, "Stopped", None)
                    /\ LockedWrite(a)
                    /\ pc' = Set(pc, a, "wait_start")
                    /\ ret' = Set(ret, a, "pre")
                    /\ armed' = Set(armed, a, Armed(a, Head(queue[a]), TRUE))
                    /\ origin' = Set(origin, a, "none")
               ELSE /\ pc' = Set(pc, a, "spawn")
                    /\ armed' = Set(armed, a, Armed(a, Head(queue[a]), FALSE))
                    /\ UNCHANGED <<fleet, lock, ret, origin>>
    /\ restartReq' = Set(restartReq, a, RestartReq(a, pc'[a]))
    /\ UNCHANGED <<count, horizon, uptime, runStart, closed, child, restart_count, elapsed, backoff, sleep,
                   delays, config>>

(* wait_for_start: one rx.recv().await *)
WaitForStart(a) ==
    /\ pc[a] = "wait_start"
    /\ IF queue[a] # << >>
       THEN /\ queue' = Set(queue, a, Dequeued(queue[a]))
            /\ armed' = Set(armed, a, Armed(a, Head(queue[a]), FALSE))
            /\ IF IsStart(Head(queue[a]))
               THEN /\ pc' = Set(pc, a, AfterStart(ret[a]))
                    /\ ret' = Set(ret, a, "none")
                    /\ origin' = Set(origin, a,
                                     IF AfterStart(ret[a]) = "watchdog" THEN "start" ELSE "none")
               ELSE UNCHANGED <<pc, ret, origin>>
       ELSE /\ closed[a]
            /\ pc' = Set(pc, a, OnClosed("wait_start"))
            /\ ret' = Set(ret, a, "none")
            /\ UNCHANGED <<queue, armed, origin>>
    /\ restartReq' = Set(restartReq, a, RestartReq(a, pc'[a]))
    /\ UNCHANGED <<count, horizon, uptime, runStart, fleet, lock, closed, child, restart_count, elapsed, backoff,
                   sleep, delays, config>>

(* spawn_and_monitor: project root and ensure_config(...).await? *)
Provision(a) ==
    /\ pc[a] = "spawn"
    /\ \E ok \in BOOLEAN :
         IF ok
         THEN /\ config' = Set(config, a, EnsureConfig(config[a]))
              /\ pc' = Set(pc, a, "launch")
              /\ origin' = Set(origin, a, "none")
         ELSE /\ pc' = Set(pc, a, OnSpawnError("provision"))
              /\ origin' = Set(origin, a, "error")
              /\ UNCHANGED config
    /\ UNCHANGED <<count, horizon, uptime, runStart, fleet, lock, queue, closed, ret, child, restart_count, elapsed,
                   backoff, sleep, delays, armed, restartReq>>

(* spawn_and_monitor: cmd.spawn()?, then update_status(Running, Some(pid)) *)
Launch(a) ==
    /\ pc[a] = "launch"
    /\ \/ \E p \in Pids :
            /\ child' = Set(child, a, "alive")
            /\ fleet' = UpdateStatus(fleet, a, "Running", Some(p))
            /\ LockedWrite(a)
            /\ pc' = Set(pc, a, "monitor")
            /\ runStart' = Set(runStart, a, "now")
            /\ UNCHANGED origin
       \/ /\ pc' = Set(pc, a, OnSpawnError("launch"))
          /\ origin' = Set(origin, a, "error")
          /\ UNCHANGED <<child, fleet, lock, runStart>>
    /\ UNCHANGED <<count, horizon, uptime, queue, closed, ret, restart_count, elapsed, backoff,
                   sleep, delays, config, armed, restartReq>>

(* the monitor loop's select!, branch child.wait(); wait() on the owned,
   unreaped child is taken to return its exit status *)
MonitorExit(a) ==
    /\ pc[a] = "monitor"
    /\ child[a] \in {"exited_ok", "exited_fail"}
    /\ LET success == child[a] = "exited_ok" IN
       /\ fleet' = UpdateStatus(fleet, a, ExitStatus(success), None)
       /\ LockedWrite(a)
       /\ child' = Set(child, a, "none")
       /\ armed' = Set(armed, a, Armed(a, "none", ExitStatus(success) = "Stopped"))
       /\ IF ExitContinues(success)
          THEN /\ pc' = Set(pc, a, "watchdog")
               /\ origin' = Set(origin, a, "crash")
          ELSE /\ pc' = Set(pc, a, "done")
               /\ UNCHANGED origin
    /\ runStart' = Set(runStart, a, "unset")
    /\ UNCHANGED <<count, horizon, uptime, queue, closed, ret, restart_count, elapsed, backoff,
                   sleep, delays, config, restartReq>>

\* the command arms without child.kill().await: the worker is left as it is
KillSkipped(c) == c

\* the worker after child.kill().await: killed and reaped
Kill(c) == "none"

\* the monitor loop's match with Start sent to the arm of Restart
MonitorArmStartRestarts(cmd) ==
    CASE cmd = "Stop" -> "stop_kill"
      [] cmd = "Restart" -> "restart_kill"
      [] cmd = "Start" -> "restart_kill"

\* the arm of the monitor loop's match a command takes
MonitorArm(cmd) ==
    CASE cmd = "Stop" -> "stop_kill"
      [] cmd = "Restart" -> "restart_kill"
      [] cmd = "Start" -> "monitor"

(* the monitor loop's select!, branch rx.recv() *)
MonitorRecv(a) ==
    /\ pc[a] = "monitor"
    /\ IF queue[a] # << >>
       THEN /\ queue' = Set(queue, a, Dequeued(queue[a]))
            /\ pc' = Set(pc, a, MonitorArm(Head(queue[a])))
            /\ armed' = Set(armed, a, Armed(a, Head(queue[a]), FALSE))
            /\ origin' = Set(origin, a,
                             IF MonitorArm(Head(queue[a])) = "monitor"
                             THEN "ignored" ELSE origin[a])
            /\ UNCHANGED <<child, runStart>>
       ELSE \* None: child.kill().await, return Ok(false)
            /\ closed[a]
            /\ child' = Set(child, a, Kill(child[a]))
            /\ runStart' = Set(runStart, a, "unset")
            /\ pc' = Set(pc, a, OnClosed("monitor"))
            /\ UNCHANGED <<queue, armed, origin>>
    /\ UNCHANGED <<count, horizon, uptime, fleet, lock, closed, ret, restart_count, elapsed, backoff,
                   sleep, delays, config, restartReq>>

(* Stop: child.kill().await has killed and reaped the worker; Stopping is
   published with the pid of the spawn, which the store still holds *)
StopKilled(a) ==
    /\ pc[a] = "stop_kill"
    /\ child' = Set(child, a, Kill(child[a]))
    /\ fleet' = UpdateStatus(fleet, a, "Stopping", fleet[a].pid)
    /\ LockedWrite(a)
    /\ pc' = Set(pc, a, "stop_wait")
    /\ runStart' = Set(runStart, a, "unset")
    /\ UNCHANGED <<count, horizon, uptime, queue, closed, ret, restart_count, elapsed, backoff,
                   sleep, delays, config, armed, restartReq, origin>>

(* Stop: child.wait().await, update_status(Stopped, None), then wait_for_start *)
StopWaited(a) ==
    /\ pc[a] = "stop_wait"
    /\ fleet' = UpdateStatus(fleet, a, "Stopped", None)
    /\ LockedWrite(a)
    /\ pc' = Set(pc, a, "wait_start")
    /\ ret' = Set(ret, a, "mon")
    /\ armed' = Set(armed, a, Armed(a, "none", TRUE))
    /\ UNCHANGED <<count, horizon, uptime, runStart, queue, closed, child, restart_count, elapsed, backoff,
                   sleep, delays, config, restartReq, origin>>

(* Restart: child.kill().await, child.wait().await, return Ok(true) *)
RestartKilled(a) ==
    /\ pc[a] = "restart_kill"
    /\ child' = Set(child, a, Kill(child[a]))
    /\ pc' = Set(pc, a, "watchdog")
    /\ origin' = Set(origin, a, "restart")
    /\ runStart' = Set(runStart, a, "unset")
    /\ UNCHANGED <<count, horizon, uptime, fleet, lock, queue, closed, ret, restart_count, elapsed,
                   backoff, sleep, delays, config, armed, restartReq>>

(* run(): the watchdog logic up to the select! of the backoff wait *)
Watchdog(a) ==
    /\ pc[a] = "watchdog"
    /\ restart_count[a] < horizon \/ elapsed[a] > ResetAfterSecs
    /\ LET rc == NextRestartCount(restart_count[a], elapsed[a]) IN
       /\ restart_count' = Set(restart_count, a, rc)
       /\ backoff' = Set(backoff, a, Backoff(rc))
       /\ sleep' = Set(sleep, a, Backoff(rc))
       /\ delays' = Set(delays, a,
                        IF elapsed[a] > 60
                        THEN <<Backoff(rc)>>
                        ELSE Append(delays[a], Backoff(rc)))
    /\ elapsed' = Set(elapsed, a, 0)
    /\ fleet' = UpdateStatus(fleet, a, "Restarting", None)
    /\ LockedWrite(a)
    /\ pc' = Set(pc, a, "backoff")
    /\ UNCHANGED <<count, horizon, uptime, runStart, queue, closed, ret, child, config, armed, restartReq, origin>>

(* the backoff select!, branch sleep(backoff) *)
BackoffElapsed(a) ==
    /\ pc[a] = "backoff"
    /\ sleep[a] = 0
    /\ pc' = Set(pc, a, "loop_top")
    /\ UNCHANGED <<count, horizon, uptime, runStart, fleet, lock, queue, closed, ret, child, restart_count, elapsed,
                   backoff, sleep, delays, config, armed, restartReq, origin>>

(* the backoff select!, branch rx.recv() *)
BackoffRecv(a) ==
    /\ pc[a] = "backoff"
    /\ sleep' = Set(sleep, a, 0)
    /\ IF queue[a] # << >>
       THEN /\ queue' = Set(queue, a, Dequeued(queue[a]))
            /\ IF IsStop(Head(queue[a]))
               THEN /\ fleet' = UpdateStatus(fleet, a, "Stopped", None)
                    /\ LockedWrite(a)
                    /\ pc' = Set(pc, a, "wait_start")
                    /\ ret' = Set(ret, a, "backoff")
                    /\ armed' = Set(armed, a, Armed(a, Head(queue[a]), TRUE))
                    /\ origin' = Set(origin, a, "none")
               ELSE /\ pc' = Set(pc, a, "loop_top")
                    /\ armed' = Set(armed, a, Armed(a, Head(queue[a]), FALSE))
                    /\ UNCHANGED <<fleet, lock, ret, origin>>
       ELSE /\ closed[a]
            /\ pc' = Set(pc, a, OnClosed("backoff"))
            /\ UNCHANGED <<fleet, lock, queue, ret, armed, origin>>
    /\ UNCHANGED <<count, horizon, uptime, runStart, closed, child, restart_count, elapsed, backoff, delays,
                   config, restartReq>>

----------------------------------------------------------------------------
(* The environment *)

(* an operator sends a command through a Sender of the agent's channel *)
Send(a, cmd) ==
    /\ a \in Registered
    /\ ReceiverAlive(a)
    /\ ~closed[a]
    /\ Len(queue[a]) < MaxQueue
    /\ queue' = Set(queue, a, Append(queue[a], cmd))
    /\ restartReq' = Set(restartReq, a,
           CASE cmd = "Restart" -> restartReq[a] \/ ( /\ fleet[a].status = "Running"
                                                      /\ pc[a] = "monitor"
                                                      /\ \A i \in 1..Len(queue[a]) : queue[a][i] # "Stop" )
             [] cmd = "Stop" -> FALSE
             [] cmd = "Start" -> restartReq[a])
    /\ UNCHANGED <<count, horizon, uptime, runStart, fleet, lock, closed, pc, ret, child, restart_count, elapsed,
                   backoff, sleep, delays, config, armed, origin>>

(* the last Sender is dropped: the one the store holds is taken out of it *)
CloseChannel(a) ==
    /\ a \in Registered
    /\ ~closed[a]
    /\ closed' = Set(closed, a, TRUE)
    /\ lock = "free"
    /\ fleet' = [fleet EXCEPT ![a].tx = None]
    /\ UNCHANGED lock
    /\ UNCHANGED <<count, horizon, uptime, runStart, queue, pc, ret, child, restart_count, elapsed, backoff,
                   sleep, delays, config, armed, restartReq, origin>>

(* the worker process exits on its own, with success or not *)
WorkerExit(a) ==
    /\ child[a] = "alive"
    /\ \E s \in {"exited_ok", "exited_fail"} : child' = Set(child, a, s)
    /\ UNCHANGED <<count, horizon, uptime, runStart, fleet, lock, queue, closed, pc, ret, restart_count, elapsed,
                   backoff, sleep, delays, config, armed, restartReq, origin>>

\* an Instant after time has passed: Instant::now() is "now" when it is taken
\* and lies earlier ever after
Earlier(i) == IF i = "now" THEN "earlier" ELSE i

\* the supervisors whose clocks are read again
Timed == {a \in AgentIds : ReceiverAlive(a)}

\* time passes up to the next instant a supervisor can tell apart: the end of
\* a sleep, the reset window reached, the reset window passed
TickSteps ==
    {d \in 1..ElapsedCap :
        \E a \in Timed :
            d \in {sleep[a], ResetAfterSecs - elapsed[a], ElapsedCap - elapsed[a]}}

Tick ==
    /\ \E d \in TickSteps :
         /\ elapsed' = [a \in AgentIds |->
                          IF a \in Timed THEN Min(elapsed[a] + d, ElapsedCap) ELSE elapsed[a]]
         /\ sleep' = [a \in AgentIds |-> Max(sleep[a] - d, 0)]
    /\ uptime' = [a \in AgentIds |-> Earlier(uptime[a])]
    /\ runStart' = [a \in AgentIds |-> Earlier(runStart[a])]
    /\ UNCHANGED <<count, horizon, fleet, lock, queue, closed, pc, ret, child, restart_count,
                   backoff, delays, config, armed, restartReq, origin>>

----------------------------------------------------------------------------
Next ==
    \/ \E a \in AgentIds : Register(a)
    \/ \E a \in AgentIds : PreSpawnCheck(a)
    \/ \E a \in AgentIds : WaitForStart(a)
    \/ \E a \in AgentIds : Provision(a)
    \/ \E a \in AgentIds : Launch(a)
    \/ \E a \in AgentIds : MonitorExit(a)
    \/ \E a \in AgentIds : MonitorRecv(a)
    \/ \E a \in AgentIds : StopKilled(a)
    \/ \E a \in AgentIds : StopWaited(a)
    \/ \E a \in AgentIds : RestartKilled(a)
    \/ \E a \in AgentIds : Watchdog(a)
    \/ \E a \in AgentIds : BackoffElapsed(a)
    \/ \E a \in AgentIds : BackoffRecv(a)
    \/ \E a \in AgentIds, cmd \in AgentCommand : Send(a, cmd)
    \/ \E a \in AgentIds : CloseChannel(a)
    \/ \E a \in AgentIds : WorkerExit(a)
    \/ Tick

Spec == Init /\ [][Next]_vars

\* the steps of the supervisor task that wait on nothing but the task being polled
Runs(a) ==
    \/ Register(a)
    \/ PreSpawnCheck(a)
    \/ WaitForStart(a)
    \/ Provision(a)
    \/ Launch(a)
    \/ StopKilled(a)
    \/ StopWaited(a)
    \/ RestartKilled(a)
    \/ Watchdog(a)

(* The runtime polls a woken task, time passes, and select! picks the branch it
   polls first at random: a branch that is ready again and again is taken *)
Fairness ==
    /\ WF_vars(Tick)
    /\ \A a \in Fleet :
         /\ WF_vars(Runs(a))
         /\ WF_vars(MonitorExit(a))
         /\ SF_vars(MonitorRecv(a))
         /\ WF_vars(BackoffElapsed(a))
         /\ SF_vars(BackoffRecv(a))

FairSpec == InitLive /\ [][Next]_vars /\ Fairness

----------------------------------------------------------------------------
(* The fleet store read by the status query *)

\* StartFleet --count 2: every agent id of the model is spawned; a restart
\* cycle is followed when the reset window has passed
InitStore == InitOf(Cardinality(AgentIds), 0)

\* the fleet left to itself: the supervisors run, the workers exit and are
\* restarted, and no operator touches a command channel
QuietNext ==
    \/ \E a \in AgentIds : Register(a)
    \/ \E a \in AgentIds : PreSpawnCheck(a)
    \/ \E a \in AgentIds : Provision(a)
    \/ \E a \in AgentIds : Launch(a)
    \/ \E a \in AgentIds : MonitorExit(a)
    \/ \E a \in AgentIds : Watchdog(a)
    \/ \E a \in AgentIds : BackoffElapsed(a)
    \/ \E a \in AgentIds : WorkerExit(a)
    \/ Tick

StoreSpec == InitStore /\ [][QuietNext]_vars

----------------------------------------------------------------------------
(* The configuration file and its operator *)

\* the operator edits the openclaw.json of an agent
OperatorEdits(a) ==
    /\ config[a] # None
    /\ config[a][1].content = "generated"
    /\ config' = Set(config, a, Some([config[a][1] EXCEPT !.content = "edited"]))
    /\ UNCHANGED <<count, horizon, uptime, runStart, fleet, lock, queue, closed, pc, ret, child, restart_count,
                   elapsed, backoff, sleep, delays, armed, restartReq, origin>>

ConfigNext ==
    \/ QuietNext
    \/ \E a \in AgentIds : OperatorEdits(a)

ConfigSpec == InitLive /\ [][ConfigNext]_vars

----------------------------------------------------------------------------
(* The supervisor task dropped by its owner *)

\* a Child built without kill_on_drop(true): dropping it leaves the process
DropChildDetaches(c) == c

\* the worker after its Child is dropped: kill_on_drop(true) has it killed
DropChild(c) == "none"

(* the future of spawn_agent is dropped while the task is suspended: its
   locals are dropped with it, the Receiver and the Child among them *)
TaskDropped(a) ==
    /\ a \in Registered
    /\ ReceiverAlive(a)
    /\ pc' = Set(pc, a, "done")
    /\ ret' = Set(ret, a, "none")
    /\ child' = Set(child, a, DropChild(child[a]))
    /\ runStart' = Set(runStart, a, "unset")
    /\ UNCHANGED <<count, horizon, uptime, fleet, lock, queue, closed, restart_count, elapsed, backoff,
                   sleep, delays, config, armed, restartReq, origin>>

DropNext ==
    \/ Next
    \/ \E a \in AgentIds : TaskDropped(a)

DropSpec == Init /\ [][DropNext]_vars

\* the strings of the model, in the order of String's Ord (bytewise)
Strings == <<"fleet", "fleet-0", "fleet-1">>

Rank(str) == CHOOSE i \in 1..Len(Strings) : Strings[i] = str

\* a.id.cmp(&b.id) == Ordering::Less
IdLess(x, y) == Rank(x.id) < Rank(y.id)

\* the orders in which a HashMap may iterate over its entries
Iterations(m) ==
    {ord \in [1..Cardinality(DOMAIN m) -> DOMAIN m] :
        \A i, j \in DOMAIN ord : i # j => ord[i] # ord[j]}

\* m.values().cloned().collect(), iterating in the order ord
Values(m, ord) == [i \in DOMAIN ord |-> m[ord[i]]]

\* x put into the sorted list s before the first record that is not less
RECURSIVE InsertById(_, _)
InsertById(s, x) ==
    IF s = << >> THEN <<x>>
    ELSE IF IdLess(Head(s), x) THEN <<Head(s)>> \o InsertById(Tail(s), x)
    ELSE <<x>> \o s

\* the list sorted by agent id
RECURSIVE SortById(_)
SortById(s) ==
    IF s = << >> THEN << >>
    ELSE InsertById(SortById(Tail(s)), Head(s))

\* snapshot(): the copy of the store's records, sorted by agent id
Snapshot(m, ord) == SortById(Values(m, ord))

\* the task is parked at an .await: provisioning and process spawn, the
\* select! on process exit and channel receive, kill().await and wait().await,
\* the select! on the backoff sleep and channel receive, wait_for_start's recv
Suspended(a) ==
    pc[a] \in {"spawn", "launch", "monitor", "stop_kill", "stop_wait", "restart_kill",
               "backoff", "wait_start"}

----------------------------------------------------------------------------
(* Properties *)

Status(a) == IF a \in Registered THEN fleet[a].status ELSE "none"

Pid(a) == IF a \in Registered THEN fleet[a].pid ELSE None

Queued(a, cmd) == \E i \in 1..Len(queue[a]) : queue[a][i] = cmd

\* C1: in every reachable state of the store, every registered agent has
\* pid = Some if and only if its status is Running or Stopping.
PidIffRunningOrStopping ==
    \A a \in Registered :
        (fleet[a].pid # None) <=> (fleet[a].status \in {"Running", "Stopping"})

\* a Stop is being handled: Stopping is published and the pid is still Some
PidKeptWhileStopping ==
    \E a \in Registered :
        /\ fleet[a].status = "Stopping"
        /\ fleet[a].pid # None
        /\ pc[a] = "stop_wait"

\* C2: a Stop command issued while the agent is Running leads to status Stopped
\* with pid None, and after a Stopped the supervisor is at a spawn attempt only
\* once it has dequeued a Start or a Restart.
StopLeadsToStopped ==
    /\ \A a \in Fleet :
         (Status(a) = "Running" /\ Queued(a, "Stop"))
             ~> (Status(a) = "Stopped" /\ Pid(a) = None)
    /\ [](\A a \in AgentIds : pc[a] \in {"spawn", "launch"} => armed[a])

\* the Stop has stopped a monitored worker and the supervisor waits for a Start
StoppedByStopWaiting ==
    \E a \in Registered :
        /\ pc[a] = "wait_start"
        /\ ret[a] = "mon"
        /\ fleet[a].status = "Stopped"
        /\ fleet[a].pid = None
        /\ ~armed[a]

\* C3 (as claimed): between a Restart command sent to a Running agent, with no
\* Stop queued before it or sent after it, and the spawn attempt that follows,
\* the status is never Stopped.
RestartNeverPassesStopped ==
    \A a \in Registered : restartReq[a] => fleet[a].status # "Stopped"

\* C4 (as claimed): after a Restart command has killed the worker, no backoff
\* delay is waited before the next spawn attempt.
RestartBypassesBackoff ==
    \A a \in AgentIds : origin[a] = "restart" => pc[a] # "backoff"

\* C5: when the child.wait() branch resolves with success, with no Stop or
\* Restart pending and the channel open, the status becomes Stopped with pid
\* None and no restart is scheduled: from a Stopped until a Start or Restart is
\* dequeued, the supervisor is at no backoff wait and at no spawn attempt.
CleanExitNeverRestarts ==
    /\ [][\A a \in Registered :
            ( /\ pc[a] = "monitor"
              /\ child[a] = "exited_ok"
              /\ ~Queued(a, "Stop")
              /\ ~Queued(a, "Restart")
              /\ ~closed[a]
              /\ pc'[a] # pc[a] )
            => ( /\ fleet'[a].status = "Stopped"
                 /\ fleet'[a].pid = None
                 /\ pc'[a] \notin {"watchdog", "backoff", "loop_top", "spawn", "launch"} )]_vars
    /\ [](\A a \in AgentIds : ~armed[a] => pc[a] \in {"wait_start", "done"})

\* the worker has exited with success and the status is Stopped
StoppedByCleanExit ==
    \E a \in Registered :
        /\ fleet[a].status = "Stopped"
        /\ fleet[a].pid = None
        /\ ~closed[a]
        /\ ~armed[a]
        /\ pc[a] # "wait_start"

\* C6: after the worker exits with non-success status while Running, the
\* supervisor eventually begins a new spawn attempt, unless a Stop intervenes
\* or the channel is closed.
CrashLeadsToSpawn ==
    \A a \in Fleet :
        (pc[a] = "monitor" /\ child[a] = "exited_fail")
            ~> (pc[a] = "spawn" \/ Status(a) = "Stopped" \/ closed[a])

\* the spawn attempt that follows a crash
SpawnAfterCrash ==
    \E a \in Registered :
        /\ pc[a] = "spawn"
        /\ origin[a] = "crash"
        /\ fleet[a].status = "Restarting"
        /\ ~closed[a]

\* C7: in every watchdog cycle restart_count becomes 1 when more than 60
\* seconds have elapsed since the previous restart and the previous count plus
\* 1 otherwise, and the delay waited is min(restart_count * 2, 30) seconds; the
\* k-th delay of a run of cycles without reset is min(2k, 30): 2, 4, 6, ...
BackoffFollowsRestartCount ==
    /\ [][\A a \in AgentIds :
            (pc[a] = "watchdog" /\ pc'[a] = "backoff")
            => ( /\ restart_count'[a] = (IF elapsed[a] > 60 THEN 1 ELSE restart_count[a] + 1)
                 /\ backoff'[a] = (IF restart_count'[a] * 2 < 30 THEN restart_count'[a] * 2 ELSE 30)
                 /\ sleep'[a] = backoff'[a] )]_vars
    /\ [][\A a \in AgentIds :
            (pc[a] = "backoff" /\ pc'[a] = "loop_top" /\ queue'[a] = queue[a])
            => sleep[a] = 0]_vars
    /\ [](\A a \in AgentIds :
            \A k \in 1..Len(delays[a]) :
                delays[a][k] = (IF 2 * k < 30 THEN 2 * k ELSE 30))

\* the third delay of a run is waited, and the delay has reached its cap
ThirdDelayIsSix ==
    \E a \in AgentIds :
        /\ pc[a] = "backoff"
        /\ delays[a] = <<2, 4, 6>>
        /\ sleep[a] = 6

\* C8 (as claimed): the supervisor task has terminated only if its channel is closed.
ExitsOnlyWhenClosed ==
    \A a \in AgentIds : pc[a] = "done" => closed[a]

\* C9: once the channel is closed and its buffer is drained, the supervisor
\* task eventually terminates.
ClosedLeadsToDone ==
    \A a \in Fleet :
        (closed[a] /\ queue[a] = << >>) ~> (pc[a] = "done")

\* the supervisor has terminated out of the backoff wait
DoneFromBackoff ==
    \E a \in Registered :
        /\ pc[a] = "done"
        /\ closed[a]
        /\ fleet[a].status = "Restarting"

\* C10 (as claimed): while an agent is Stopped and its channel is open, its
\* supervisor is there to receive a Start or Restart.
StoppedAcceptsStart ==
    \A a \in Registered :
        (fleet[a].status = "Stopped" /\ ~closed[a]) => ReceiverAlive(a)

\* C11: a Stop command received during the backoff wait ends the wait at once,
\* whatever is left of the delay: the status becomes Stopped with pid None, and
\* no spawn attempt is made until a Start or a Restart is received.
StopEndsBackoff ==
    /\ [][\A a \in Registered :
            ( /\ pc[a] = "backoff"
              /\ queue[a] # << >>
              /\ Head(queue[a]) = "Stop"
              /\ queue'[a] = Tail(queue[a]) )
            => ( /\ fleet'[a].status = "Stopped"
                 /\ fleet'[a].pid = None
                 /\ pc'[a] = "wait_start" )]_vars
    /\ [][\A a \in Registered :
            (pc[a] = "wait_start" /\ pc'[a] \notin {"wait_start", "done"})
            => (queue[a] # << >> /\ Head(queue[a]) \in {"Start", "Restart"})]_vars
    /\ [](\A a \in Registered :
            (pc[a] = "wait_start" /\ ret[a] = "backoff")
            => (fleet[a].status = "Stopped" /\ fleet[a].pid = None))

\* the Stop was received before the delay had elapsed
StoppedDuringBackoff ==
    \E a \in Registered :
        /\ pc[a] = "wait_start"
        /\ ret[a] = "backoff"
        /\ fleet[a].status = "Stopped"
        /\ fleet[a].pid = None
        /\ backoff[a] = 6
        /\ elapsed[a] < backoff[a]

StopBeforeSpawnPrevents ==
    /\ [][\A a \in Registered :
            (pc[a] = "loop_top" /\ pc'[a] # "loop_top")
            => IF queue[a] # << >> /\ Head(queue[a]) = "Stop"
               THEN /\ queue'[a] = Tail(queue[a])
                    /\ fleet'[a].status = "Stopped"
                    /\ fleet'[a].pid = None
                    /\ child'[a] = "none"
                    /\ pc'[a] = "wait_start"
               ELSE pc'[a] = "spawn"]_vars
    /\ [][\A a \in Registered :
            (pc[a] # "spawn" /\ pc'[a] = "spawn")
            => \/ pc[a] = "loop_top"
               \/ /\ pc[a] = "wait_start"
                  /\ fleet[a].status = "Stopped"
                  /\ queue[a] # << >>
                  /\ Head(queue[a]) \in {"Start", "Restart"}]_vars
    /\ [](\A a \in AgentIds : pc[a] \in {"loop_top", "wait_start", "spawn"} => child[a] = "none")

\* a Stop found by the check has prevented the restart of a crashed worker
RestartPreventedByStop ==
    \E a \in Registered :
        /\ pc[a] = "wait_start"
        /\ ret[a] = "pre"
        /\ fleet[a].status = "Stopped"
        /\ fleet[a].pid = None
        /\ child[a] = "none"
        /\ restart_count[a] = 1

\* C14: within one agent the supervisor consumes commands in the order they
\* were sent: a step changes the agent's buffer only by a send appending one
\* command at its end or by the supervisor, at one of its receive points,
\* removing the one command at its head, and the command acted on is that head;
\* so the commands dequeued are a prefix of the commands sent, none dequeued
\* twice, none out of order.
CommandsConsumedInOrder ==
    /\ [][\A a \in AgentIds :
            \/ queue'[a] = queue[a]
            \/ /\ \E cmd \in AgentCommand : queue'[a] = Append(queue[a], cmd)
               /\ pc'[a] = pc[a]
            \/ /\ queue[a] # << >>
               /\ queue'[a] = Tail(queue[a])
               /\ pc[a] \in {"loop_top", "monitor", "backoff", "wait_start"}]_vars
    /\ [][\A a \in AgentIds :
            ( /\ pc[a] \in {"monitor", "backoff", "wait_start"}
              /\ pc'[a] \notin {pc[a], "done"}
              /\ ~(pc[a] = "monitor" /\ pc'[a] = "watchdog")
              /\ ~(pc[a] = "backoff" /\ sleep[a] = 0 /\ queue'[a] = queue[a]) )
            => ( /\ queue[a] # << >>
                 /\ queue'[a] = Tail(queue[a])
                 /\ pc'[a] = "stop_kill" => Head(queue[a]) = "Stop"
                 /\ pc'[a] = "restart_kill" => Head(queue[a]) = "Restart"
                 /\ (pc[a] = "backoff" /\ pc'[a] = "wait_start") => Head(queue[a]) = "Stop"
                 /\ pc[a] = "wait_start" => Head(queue[a]) \in {"Start", "Restart"} )]_vars

\* Stop and Start were sent in this order: the Stop is being acted on and the
\* Start is still in the buffer
SecondCommandWaitsForFirst ==
    \E a \in Registered :
        /\ pc[a] = "stop_kill"
        /\ queue[a] = <<"Start">>

EnsureConfigIdempotent ==
    /\ [][\A a \in AgentIds :
            (pc[a] = "spawn" /\ pc'[a] # "spawn" /\ config[a] # None)
            => config'[a] = config[a]]_vars
    /\ [](\A a \in AgentIds :
            /\ EnsureConfig(EnsureConfig(config[a])) = EnsureConfig(config[a])
            /\ config[a] # None => config[a][1].token = 1)

\* ensure_config has been called again on a file the operator has edited
EditedConfigSurvivesRespawn ==
    \E a \in Registered :
        /\ pc[a] = "launch"
        /\ restart_count[a] = 2
        /\ config[a] = Some([token |-> 1, content |-> "edited"])

\* C17: a failure of ensure_config or of the launch of the worker aborts only
\* the current spawn attempt: the supervisor task does not terminate, the pid
\* in the store stays None, the watchdog publishes Restarting and waits the
\* backoff, and a later spawn attempt follows unless a Stop is received or the
\* channel is closed.
SpawnErrorIsRetried ==
    /\ [][\A a \in Registered :
            (pc[a] \in {"spawn", "launch"} /\ pc'[a] \notin {"spawn", "launch", "monitor"})
            => ( /\ pc'[a] = "watchdog"
                 /\ child'[a] = "none"
                 /\ fleet[a].pid = None
                 /\ fleet'[a].pid = None )]_vars
    /\ [][\A a \in Registered :
            (pc[a] = "watchdog" /\ pc'[a] # "watchdog")
            => ( /\ pc'[a] = "backoff"
                 /\ fleet'[a].status = "Restarting"
                 /\ fleet'[a].pid = None
                 /\ sleep'[a] > 0 )]_vars
    /\ \A a \in Fleet :
         (pc[a] = "watchdog" /\ origin[a] = "error")
             ~> (pc[a] = "spawn" \/ Status(a) = "Stopped" \/ closed[a])

\* the spawn attempt that follows a failed one
SpawnAfterFailedAttempt ==
    \E a \in Registered :
        /\ pc[a] = "spawn"
        /\ origin[a] = "error"
        /\ fleet[a].status = "Restarting"
        /\ fleet[a].pid = None
        /\ config[a] = None
        /\ ~closed[a]

\* C18: no worker process outlives its supervisor: whenever the supervisor
\* task has terminated (the channel closed, the worker exited with success, or
\* the task dropped), the agent has no live worker process.
NoWorkerOutlivesSupervisor ==
    \A a \in AgentIds : pc[a] = "done" => child[a] # "alive"

\* the task was dropped while it monitored a live worker
DroppedWhileMonitoring ==
    \E a \in Registered :
        /\ pc[a] = "done"
        /\ fleet[a].status = "Running"
        /\ ~closed[a]
        /\ child[a] = "none"

\* C19 (as claimed): every spawn attempt is announced in the store: the status
\* becomes Starting before it becomes Running, so that Running is entered from
\* Starting only, after a Restarting and after a Stopped as after registration.
RunningOnlyFromStarting ==
    [][\A a \in Registered :
          (a \in DOMAIN fleet' /\ fleet'[a].status = "Running" /\ fleet[a].status # "Running")
          => fleet[a].status = "Starting"]_vars

\* C20: Failed is transient: the value written to the status after Failed is
\* Restarting, and while the status is Failed the supervisor is between the
\* return of spawn_and_monitor and the watchdog's write, suspended on no command
\* receive, sleep or process wait.
FailedIsTransient ==
    /\ [][\A a \in Registered :
            (fleet[a].status = "Failed" /\ fleet'[a].status # "Failed")
            => ( /\ fleet'[a].status = "Restarting"
                 /\ fleet'[a].pid = None )]_vars
    /\ [](\A a \in Registered :
            fleet[a].status = "Failed"
            => pc[a] = "watchdog")

\* the crash has been published as Failed and then as Restarting
RestartingAfterFailed ==
    \E a \in Registered :
        /\ origin[a] = "crash"
        /\ pc[a] = "backoff"
        /\ fleet[a].status = "Restarting"
        /\ sleep[a] > 0

\* C21 (as claimed): after a Stop has stopped a Running worker and a Start or
\* Restart is then received, the supervisor goes from Stopped to the next spawn
\* attempt with the status never Restarting and no backoff delay waited.
StartAfterStopBypassesBackoff ==
    \A a \in Registered :
        origin[a] = "start"
        => (pc[a] # "backoff" /\ fleet[a].status # "Restarting")

\* C22: the fleet-store lock is never held across a suspension point: while a
\* supervisor task is suspended on process spawn, exit or kill, on the backoff
\* sleep or on a channel receive, it does not hold the lock, and the lock is
\* free for another supervisor or a status reader.
LockFreeWhileSuspended ==
    \A a \in AgentIds : Suspended(a) => (lock # a /\ lock = "free")

\* the task has written Stopping under the lock and is suspended on wait()
SuspendedAfterWrite ==
    \E a \in Registered :
        /\ pc[a] = "stop_wait"
        /\ fleet[a].status = "Stopping"
        /\ lock = "free"

\* C23 (as claimed): the timestamp uptime_secs is computed from marks the
\* beginning of the current run: while a worker spawned after a watchdog cycle
\* runs, the Instant stored in the agent's entry is the Instant of that spawn.
UptimeMarksCurrentRun ==
    \A a \in Registered :
        (fleet[a].status = "Running" /\ pc[a] = "monitor" /\ restart_count[a] > 0)
        => uptime[a] = runStart[a]

\* C24: the writes to the fleet store change only the status and the pid of
\* the writing supervisor's own entry: an id enters the store at its
\* registration and none leaves it, a step changes the entry of one agent at
\* most, that agent's own supervisor takes the step, and the id, fleet_id, port,
\* ipv6 and command sender of every entry stay as registered.
StoreWritesAreFramed ==
    [][ /\ DOMAIN fleet \subseteq DOMAIN fleet'
        /\ \A a \in (DOMAIN fleet') \ (DOMAIN fleet) :
              /\ pc[a] = "unregistered"
              /\ pc'[a] # "unregistered"
              /\ fleet'[a] = [id |-> a, fleet_id |-> "fleet", port |-> 20000 + 100 * Index(a),
                              ipv6 |-> None, pid |-> None, status |-> "Starting",
                              tx |-> Some(a)]
        /\ \A a \in DOMAIN fleet :
              /\ fleet'[a].id = fleet[a].id
              /\ fleet'[a].fleet_id = fleet[a].fleet_id
              /\ fleet'[a].port = fleet[a].port
              /\ fleet'[a].ipv6 = fleet[a].ipv6
              /\ fleet'[a].tx = fleet[a].tx
              /\ fleet'[a] # fleet[a] => pc'[a] # pc[a]
        /\ \A a, b \in DOMAIN fleet :
              (a # b /\ fleet'[a] # fleet[a]) => fleet'[b] = fleet[b] ]_vars

\* both supervisors have written their statuses, and each entry is otherwise
\* as it was registered
TwoEntriesWrittenApart ==
    /\ Registered = AgentIds
    /\ fleet["fleet-0"].status = "Running"
    /\ fleet["fleet-0"].pid # None
    /\ fleet["fleet-1"].status = "Restarting"
    /\ fleet["fleet-1"].pid = None
    /\ fleet["fleet-0"].port = 20000
    /\ fleet["fleet-1"].port = 20100
    /\ fleet["fleet-1"].tx = Some("fleet-1")

\* C25: an agent has one worker process at most: a worker comes alive only in
\* the spawn step, which starts with no worker of the agent left (the previous
\* one has exited and been waited for, or has been killed and reaped), and
\* wherever the supervisor is outside the monitor loop and its command arms,
\* on the way to the next spawn or at its end, the agent has no worker.
OneWorkerPerAgent ==
    [][ \A a \in AgentIds :
          /\ (child'[a] = "alive" /\ child[a] # "alive")
                => (pc[a] = "launch" /\ pc'[a] = "monitor" /\ child[a] = "none")
          /\ pc'[a] \in {"loop_top", "wait_start", "spawn", "launch", "watchdog",
                         "backoff", "stop_wait", "done"}
                => child'[a] = "none" ]_vars

\* a Restart command has had the running worker killed and waited for, and the
\* loop is on its way back to the spawn
WorkerKilledBeforeRespawn ==
    \E a \in Registered :
        /\ pc[a] = "watchdog"
        /\ origin[a] = "restart"
        /\ child[a] = "none"
        /\ fleet[a].status = "Running"

\* C26: a Start command the monitor loop receives while the agent is Running
\* has no effect: the step leaves the worker as it is, neither killed nor
\* respawned, leaves the agent's entry of the store, status and pid with it,
\* and the restart counter unchanged, and the supervisor is in the monitor loop
\* again, on the same worker.
StartWhileRunningIgnored ==
    [][ \A a \in Registered :
          ( /\ pc[a] = "monitor"
            /\ fleet[a].status = "Running"
            /\ queue[a] # << >>
            /\ Head(queue[a]) = "Start"
            /\ Len(queue'[a]) < Len(queue[a]) )
          => ( /\ pc'[a] = "monitor"
               /\ child'[a] = child[a]
               /\ runStart'[a] = runStart[a]
               /\ fleet'[a] = fleet[a]
               /\ restart_count'[a] = restart_count[a]
               /\ elapsed'[a] = elapsed[a] ) ]_vars

\* the monitor loop has passed over a Start and monitors the worker it had
StartPassedOver ==
    \E a \in Registered :
        /\ pc[a] = "monitor"
        /\ origin[a] = "ignored"
        /\ child[a] = "alive"
        /\ fleet[a].status = "Running"
        /\ fleet[a].pid # None

====
